---- MODULE Spec2Model ----
(***************************************************************************)
(* A model of the simulation core of mapwar: src/src/rng.rs (the seeded    *)
(* random source) and src/src/game_state.rs (GameState::process_action and *)
(* GameState::step_time).  Indices are 0-based as in the source.  An       *)
(* Option<T> is a sequence: << >> is None and <<v>> (or the pair itself    *)
(* for contents) is Some.                                                   *)
(***************************************************************************)
EXTENDS Integers, Sequences, FiniteSets, TLC

VARIABLES rng, territories, player_states, player_indices_by_token, last

vars == <<rng, territories, player_states, player_indices_by_token, last>>

\* The fields of GameState: what process_action and step_time may change.
world == <<rng, territories, player_states, player_indices_by_token>>

-----------------------------------------------------------------------------
(* Bounds of the model.                                                    *)

\* Largest unit count a territory of an initial world holds.
MaxUnits == 1
\* Seeds of the initial worlds are 0..MaxSeed.
MaxSeed == 1
\* step_time is not taken once the RNG counter could pass this value.
MaxRngState == 12

-----------------------------------------------------------------------------
(* rng.rs: a u64 is kept as 8 bytes, least significant first, so that the  *)
(* wrapping multiplication and the shift are computed at their width.      *)

Bytes == 1..8

\* The u64 of a small natural number (n < 2^31).
ToU64(n) ==
  <<n % 256, (n \div 256) % 256, (n \div 65536) % 256, n \div 16777216,
    0, 0, 0, 0>>

\* const MULT: u64 = 0x243f6a8885a308d3
MULT == <<211, 8, 163, 133, 136, 106, 63, 36>>

RECURSIVE MulColumn(_, _, _, _)
\* Sum of a[i] * b[k + 1 - i] for i in 1..j: column k of the product.
MulColumn(a, b, k, j) ==
  IF j = 0 THEN 0 ELSE (a[j] * b[k + 1 - j]) + MulColumn(a, b, k, j - 1)

RECURSIVE MulCarry(_, _, _)
\* Column k of the product with the carry of the columns below it.
MulCarry(a, b, k) ==
  IF k = 0 THEN 0
  ELSE MulColumn(a, b, k, k) + (MulCarry(a, b, k - 1) \div 256)

\* u64::wrapping_mul: the product modulo 2^64.
wrapping_mul(a, b) ==
  <<MulCarry(a, b, 1) % 256, MulCarry(a, b, 2) % 256, MulCarry(a, b, 3) % 256,
    MulCarry(a, b, 4) % 256, MulCarry(a, b, 5) % 256, MulCarry(a, b, 6) % 256,
    MulCarry(a, b, 7) % 256, MulCarry(a, b, 8) % 256>>

RECURSIVE BitXor(_, _)
BitXor(x, y) ==
  IF x = 0 /\ y = 0 THEN 0
  ELSE (((x % 2) + (y % 2)) % 2) + 2 * BitXor(x \div 2, y \div 2)

ByteAt(x, j) == IF j \in Bytes THEN x[j] ELSE 0

\* x >> 37: four whole bytes and five bits.
ShiftedByte(x, i) == (ByteAt(x, i + 4) \div 32) + ((ByteAt(x, i + 5) % 32) * 8)

ShiftRight37(x) ==
  <<ShiftedByte(x, 1), ShiftedByte(x, 2), ShiftedByte(x, 3), ShiftedByte(x, 4),
    ShiftedByte(x, 5), ShiftedByte(x, 6), ShiftedByte(x, 7), ShiftedByte(x, 8)>>

\* x ^ y, byte by byte.
XorBytes(x, y) ==
  <<BitXor(x[1], y[1]), BitXor(x[2], y[2]), BitXor(x[3], y[3]), BitXor(x[4], y[4]),
    BitXor(x[5], y[5]), BitXor(x[6], y[6]), BitXor(x[7], y[7]), BitXor(x[8], y[8])>>

\* x ^= x >> 37
XorShift(x) == XorBytes(x, ShiftRight37(x))

\* One round of the loop of Rng::generate.
MixRound(x) == XorShift(wrapping_mul(x, MULT))

\* The value Rng::generate returns once the counter has been incremented to s.
Mix(s) == wrapping_mul(MixRound(MixRound(MixRound(ToU64(s)))), MULT)

RECURSIVE MixUpTo(_)
MixUpTo(n) == IF n = 0 THEN << >> ELSE Append(MixUpTo(n - 1), Mix(n))

\* The values of generate for the counters the model reaches, computed once:
\* a step that would pass MaxRngState is computed before it is refused.
RngTable == MixUpTo(3 * MaxRngState)

\* The value generated at counter s: read from the table when it holds it.
ValueAt(s, table) == IF s \in DOMAIN table THEN table[s] ELSE Mix(s)

\* Rng::generate: `state` is the counter before the call.
generate(state) == [state |-> state + 1, value |-> ValueAt(state + 1, RngTable)]

\* value & 0x3
Low2(value) == value[1] % 4

RECURSIVE ModFrom(_, _, _)
ModFrom(value, k, i) ==
  IF i > 8 THEN 0 ELSE ((ModFrom(value, k, i + 1) * 256) + value[i]) % k

\* value % k for a small k.
ModU64(value, k) == ModFrom(value, k, 1)

\* Rng::new_from_seed
new_from_seed(seed) == seed

-----------------------------------------------------------------------------
(* game_state.rs: the world.                                               *)

\* Option<T>
None == << >>
Some(v) == <<v>>
is_some(opt) == opt # None

\* Command
Grow == [kind |-> "Grow"]
Fortify == [kind |-> "Fortify"]
Attack(target) == [kind |-> "Attack", target |-> target]

\* GameAction
Resign == [kind |-> "Resign"]
SetCommand(territory, command) ==
  [kind |-> "SetCommand", territory |-> territory, command |-> command]

\* The map of the initial worlds: three territories in a row, 0 - 1 - 2, the
\* middle one a swamp.  sort, adjacent and render_info of struct Territory.
InitialMap ==
  [i \in 0..2 |->
    CASE i = 0 -> [sort |-> "Land",   adjacent |-> <<1>>,    render_info |-> <<0, 0>>]
      [] i = 1 -> [sort |-> "Swamp",  adjacent |-> <<0, 2>>, render_info |-> <<10, 0>>]
      [] i = 2 -> [sort |-> "Forest", adjacent |-> <<1>>,    render_info |-> <<20, 5>>]]

TerritoryIndices == DOMAIN InitialMap
NumTerritories == Cardinality(TerritoryIndices)

\* The roster of the initial worlds: PlayerState of player 0 and player 1.
InitialPlayers ==
  [p \in 0..1 |->
    [is_alive |-> TRUE, defense_level |-> p, attack_level |-> 0,
     vision_level |-> 0, growth_level |-> 0]]

PlayerIndices == DOMAIN InitialPlayers

\* player_indices_by_token of the initial worlds.
InitialTokens == [t \in {"a", "b"} |-> IF t = "a" THEN 0 ELSE 1]

\* The tokens process_action is called with: those of the roster and a stranger's.
Tokens == {"a", "b", "x"}

\* Territory::contents: None or Some((owner, units)).
InitialContents ==
  {None} \cup {<<p, u>> : p \in PlayerIndices, u \in 0..MaxUnits}

\* The contents of the initial worlds: territory 0 is held by player 0 with
\* any number of units, territory 1 is empty or held by either player with
\* MaxUnits units and territory 2 is empty or held by player 1 with any
\* number of units.
InitialWorlds ==
  {c \in [TerritoryIndices -> InitialContents] :
     /\ c[0] # None /\ c[0][1] = 0
     /\ c[1] = None \/ c[1][2] = MaxUnits
     /\ c[2] = None \/ c[2][1] = 1}

\* Vec::get(i).is_some(): the index is in range.
in_range(vec, i) == i \in DOMAIN vec

\* Vec::contains
contains(seq, x) == \E k \in 1..Len(seq) : seq[k] = x

-----------------------------------------------------------------------------
(* GameState::process_action                                               *)

\* A slip: adjacency is looked at before the range of the target.
validate_command_adjacent_first(terrs, territory, command) ==
  IF command.kind = "Attack"
  THEN IF ~contains(terrs[territory].adjacent, command.target)
       THEN "Target territory not adjacent"
       ELSE IF ~in_range(terrs, command.target) THEN "Target territory not found"
            ELSE "Ok"
  ELSE "Ok"

\* A slip: the target of an Attack is not checked at all.
validate_command_unchecked(terrs, territory, command) == "Ok"

\* A slip: the target is never looked up in the adjacency list.
validate_command_any_target(terrs, territory, command) ==
  IF command.kind = "Attack"
  THEN IF ~in_range(terrs, command.target) THEN "Target territory not found"
       ELSE "Ok"
  ELSE "Ok"

\* The validation of Command (lines 140-150): the error, or "Ok".
validate_command(terrs, territory, command) ==
  IF command.kind = "Attack"
  THEN IF ~in_range(terrs, command.target) THEN "Target territory not found"
       ELSE IF ~contains(terrs[territory].adjacent, command.target)
            THEN "Target territory not adjacent"
            ELSE "Ok"
  ELSE "Ok"

\* A slip: the command is stored before its target is validated.
set_command_stored_first(terrs, player_index, territory, command) ==
  IF ~in_range(terrs, territory)
  THEN [result |-> "Territory not found", territories |-> terrs]
  ELSE IF ~is_some(terrs[territory].contents)
  THEN [result |-> "Territory is empty", territories |-> terrs]
  ELSE IF terrs[territory].contents[1] # player_index
  THEN [result |-> "Player does not own territory", territories |-> terrs]
  ELSE [result |-> validate_command(terrs, territory, command),
        territories |-> [terrs EXCEPT ![territory].command = command]]

\* A slip: an accepted Attack is stored on its target.
set_command_on_target(terrs, player_index, territory, command) ==
  IF ~in_range(terrs, territory)
  THEN [result |-> "Territory not found", territories |-> terrs]
  ELSE IF ~is_some(terrs[territory].contents)
  THEN [result |-> "Territory is empty", territories |-> terrs]
  ELSE IF terrs[territory].contents[1] # player_index
  THEN [result |-> "Player does not own territory", territories |-> terrs]
  ELSE IF validate_command(terrs, territory, command) # "Ok"
  THEN [result |-> validate_command(terrs, territory, command), territories |-> terrs]
  ELSE [result |-> "Ok",
        territories |->
          [terrs EXCEPT ![IF command.kind = "Attack" THEN command.target
                          ELSE territory].command = command]]

\* The SetCommand arm (lines 130-153): the result and the territories after it.
set_command(terrs, player_index, territory, command) ==
  IF ~in_range(terrs, territory)
  THEN [result |-> "Territory not found", territories |-> terrs]
  ELSE IF ~is_some(terrs[territory].contents)
  THEN [result |-> "Territory is empty", territories |-> terrs]
  ELSE IF terrs[territory].contents[1] # player_index
  THEN [result |-> "Player does not own territory", territories |-> terrs]
  ELSE IF validate_command(terrs, territory, command) # "Ok"
  THEN [result |-> validate_command(terrs, territory, command), territories |-> terrs]
  ELSE [result |-> "Ok",
        territories |-> [terrs EXCEPT ![territory].command = command]]

\* A slip: the resigning player's whole state is reset.
resign_reset(players, player_index) ==
  [players EXCEPT ![player_index] =
     [is_alive |-> FALSE, defense_level |-> 0, attack_level |-> 0,
      vision_level |-> 0, growth_level |-> 0]]

\* The Resign arm (line 154): the player states after it.
resign(players, player_index) ==
  [players EXCEPT ![player_index].is_alive = FALSE]

\* A slip: the alive flag is never looked at.
is_dead_unchecked(players, player_index) == FALSE

\* Line 125: !player.is_alive
is_dead(players, player_index) == ~players[player_index].is_alive

\* process_action as a function of the state: the result and the fields it leaves.
process_action(terrs, players, tokens, player_token, action) ==
  IF player_token \notin DOMAIN tokens
  THEN [result |-> "Player not found", territories |-> terrs, player_states |-> players]
  ELSE LET player_index == tokens[player_token] IN
    IF is_dead(players, player_index)
    THEN [result |-> "Player already dead", territories |-> terrs,
          player_states |-> players]
    ELSE IF action.kind = "SetCommand"
    THEN LET r == set_command(terrs, player_index, action.territory, action.command)
         IN  [result |-> r.result, territories |-> r.territories,
              player_states |-> players]
    ELSE [result |-> "Ok", territories |-> terrs,
          player_states |-> resign(players, player_index)]

\* The commands and actions a client can submit: indices are usize, and one
\* past the last territory stands for every index out of range.
SubmittedIndices == 0..NumTerritories
SubmittedCommands == {Grow, Fortify} \cup {Attack(t) : t \in SubmittedIndices}
SubmittedActions ==
  {Resign} \cup {SetCommand(t, c) : t \in SubmittedIndices, c \in SubmittedCommands}

NoEvents == << >>

ProcessAction(player_token, action) ==
  LET r == process_action(territories, player_states, player_indices_by_token,
                          player_token, action)
  IN  /\ territories' = r.territories
      /\ player_states' = r.player_states
      /\ UNCHANGED <<rng, player_indices_by_token>>
      /\ last' = [op |-> "process_action", result |-> r.result,
                  events |-> NoEvents, died |-> {}]

-----------------------------------------------------------------------------
(* GameState::step_time                                                    *)

\* self.territories.len()
len(vec) == Cardinality(DOMAIN vec)

\* Phase A (lines 171-191): the half defense points of one territory.
half_defense(terr, players) ==
  IF ~is_some(terr.contents) THEN 0
  ELSE LET owner == terr.contents[1]
           units == terr.contents[2]
       IN  2 * players[owner].defense_level
           + (IF terr.command.kind = "Attack" THEN units ELSE 2 * units)
           + (CASE terr.sort = "Swamp" -> -2
                [] terr.sort = "Forest" -> 2
                [] OTHER -> units)
           + (IF terr.command.kind = "Fortify" THEN 2 ELSE 0)

\* A slip: any occupant of the target counts as the attacker's owner.
same_owner_any_occupant(terrs, target, owner) == is_some(terrs[target].contents)

\* Line 202: the target is occupied by the attacker's owner.
same_owner(terrs, target, owner) ==
  IF is_some(terrs[target].contents) THEN terrs[target].contents[1] = owner
  ELSE FALSE

RECURSIVE attack_tally(_, _, _)
\* Phase B (lines 194-208), from territory i on: acc holds both tallies.
attack_tally(terrs, i, acc) ==
  IF i >= len(terrs) THEN acc
  ELSE LET terr == terrs[i] IN
    IF ~is_some(terr.contents) THEN attack_tally(terrs, i + 1, acc)
    ELSE IF terr.command.kind # "Attack" THEN attack_tally(terrs, i + 1, acc)
    ELSE LET owner == terr.contents[1]
             units == terr.contents[2]
             target == terr.command.target
         IN  IF same_owner(terrs, target, owner)
             THEN attack_tally(terrs, i + 1,
                    [acc EXCEPT !.half_defense_points[target] = @ + units])
             ELSE attack_tally(terrs, i + 1,
                    [acc EXCEPT !.incoming_half_attack_points[target] = @ + units])

\* Phases A and B: half_defense_points and incoming_half_attack_points as
\* Phase C reads them.
tallies(terrs, players) ==
  attack_tally(terrs, 0,
    [half_defense_points |-> [i \in DOMAIN terrs |-> half_defense(terrs[i], players)],
     incoming_half_attack_points |-> [i \in DOMAIN terrs |-> 0]])

RECURSIVE roll(_, _)

\* sum += value & 0x3, for the draw `value` and the draws after it.
roll_sum(value, rest) == [state |-> rest.state, sum |-> Low2(value) + rest.sum]

\* The draw g and the n - 1 draws after it.
roll_from(g, n) == roll_sum(g.value, roll(g.state, n - 1))

\* for _ in 0..n { sum += self.rng.generate() & 0x3 }: no draw when n <= 0.
roll(state, n) ==
  IF n <= 0 THEN [state |-> state, sum |-> 0] ELSE roll_from(generate(state), n)

\* A slip: the comparison is turned round.
dies_defense_wins(attack_sum, defense_sum) == defense_sum > attack_sum

\* A slip: a draw of the two rolls clears the territory.
dies_on_draw(attack_sum, defense_sum) == attack_sum >= defense_sum

\* Line 221: the territory loses its units.
dies(attack_sum, defense_sum) == attack_sum > defense_sum

Death(render_info) == [kind |-> "Death", render_info |-> render_info, amount |-> 0]

Movement(from, to) ==
  [kind |-> "Movement", render_info_from |-> from, render_info_to |-> to,
   amount |-> 0]

\* Lines 221-228: territory i after its two rolls, `state` being the RNG
\* counter after them.
settle(st, i, attack_sum, defense_sum, state) ==
  IF dies(attack_sum, defense_sum)
  THEN [rng |-> state,
        territories |-> [st.territories EXCEPT ![i].contents = None],
        events |-> Append(st.events, Death(st.territories[i].render_info)),
        died |-> st.died \cup {i}]
  ELSE [st EXCEPT !.rng = state]

\* A slip: the attack roll of a territory is drawn before its defense roll.
defend_after(st, i, attack, defense) ==
  settle(st, i, attack.sum, defense.sum, defense.state)

fight_attack_first(tally, i, st, attack) ==
  defend_after(st, i, attack, roll(attack.state, tally.half_defense_points[i]))

RECURSIVE combat_attack_first(_, _, _)
combat_attack_first(tally, i, st) ==
  IF i >= len(st.territories) THEN st
  ELSE combat_attack_first(tally, i + 1,
         fight_attack_first(tally, i, st,
           roll(st.rng, tally.incoming_half_attack_points[i])))

\* Line 221, on the two rolls of territory i.
attacked(st, i, defense, attack) ==
  settle(st, i, attack.sum, defense.sum, attack.state)

\* Lines 216-219: the attack roll of territory i, drawn after its defense roll.
fight(tally, i, st, defense) ==
  attacked(st, i, defense, roll(defense.state, tally.incoming_half_attack_points[i]))

RECURSIVE combat(_, _, _)
\* Phase C (lines 211-229), from territory i on: st holds the RNG counter, the
\* territories, the events pushed so far and the territories cleared.
combat(tally, i, st) ==
  IF i >= len(st.territories) THEN st
  ELSE combat(tally, i + 1,
         fight(tally, i, st, roll(st.rng, tally.half_defense_points[i])))

\* A slip: the entries start with territory 0 as their source.
NoIncoming_from_first == [units |-> -1, source_territory |-> Some(0), competitor_count |-> 0]

\* Lines 237-244: the entry every target starts with.
NoIncoming == [units |-> -1, source_territory |-> None, competitor_count |-> 0]

\* Lines 262-266: a tie, with the draw g and the competitor count `count`.
tie_break(entry, g, i, units, count) ==
  IF ModU64(g.value, count) = 0
  THEN [state |-> g.state,
        entry |-> [units |-> units, source_territory |-> Some(i),
                   competitor_count |-> count]]
  ELSE [state |-> g.state, entry |-> [entry EXCEPT !.competitor_count = count]]

\* A slip: a candidate that ties the best replaces it, and nothing is drawn.
consider_last_tied(entry, state, i, units) ==
  IF units >= entry.units
  THEN [state |-> state,
        entry |-> [units |-> units, source_territory |-> Some(i),
                   competitor_count |-> entry.competitor_count + 1]]
  ELSE [state |-> state, entry |-> entry]

\* Lines 257-272: candidate i with `units` against the entry of its target.
\* The result holds the entry and the RNG counter after the comparison.
consider(entry, state, i, units) ==
  IF units > entry.units
  THEN [state |-> state,
        entry |-> [units |-> units, source_territory |-> Some(i),
                   competitor_count |-> 1]]
  ELSE IF units = entry.units
  THEN tie_break(entry, generate(state), i, units, entry.competitor_count + 1)
  ELSE [state |-> state, entry |-> entry]

\* Lines 259-271: the entry of `target` and the RNG counter after candidate c.
record_best(st, target, c) ==
  [rng |-> c.state,
   best_incoming |-> [st.best_incoming EXCEPT ![target] = c.entry]]

RECURSIVE select_moves_before_combat(_, _, _)
\* A slip: the candidates and their units are read from the territories as
\* they were before Phase C; only the target is looked at after combat.
select_moves_before_combat(terrs, i, st) ==
  IF i >= len(terrs) THEN st
  ELSE LET terr == territories[i] IN
    IF ~is_some(terr.contents) THEN select_moves_before_combat(terrs, i + 1, st)
    ELSE IF terr.command.kind # "Attack"
    THEN select_moves_before_combat(terrs, i + 1, st)
    ELSE LET target == terr.command.target IN
      IF is_some(terrs[target].contents)
      THEN select_moves_before_combat(terrs, i + 1, st)
      ELSE select_moves_before_combat(terrs, i + 1,
             record_best(st, target,
               consider(st.best_incoming[target], st.rng, i, terr.contents[2])))

RECURSIVE select_moves(_, _, _)
\* Phase D, the candidates (lines 246-274), from territory i on: st holds the
\* RNG counter and best_incoming; terrs are the territories after combat.
select_moves(terrs, i, st) ==
  IF i >= len(terrs) THEN st
  ELSE LET terr == terrs[i] IN
    IF ~is_some(terr.contents) THEN select_moves(terrs, i + 1, st)
    ELSE IF terr.command.kind # "Attack" THEN select_moves(terrs, i + 1, st)
    ELSE LET target == terr.command.target IN
      IF is_some(terrs[target].contents) THEN select_moves(terrs, i + 1, st)
      ELSE select_moves(terrs, i + 1,
             record_best(st, target,
               consider(st.best_incoming[target], st.rng, i, terr.contents[2])))

\* A slip: the source keeps its units.
move_copy(terrs, source, target) ==
  [terrs EXCEPT ![target].contents = terrs[source].contents]

\* A slip: the target is given the source's territory index as its owner.
move_source_as_owner(terrs, source, target) ==
  [terrs EXCEPT ![target].contents = <<source, terrs[source].contents[2]>>,
                ![source].contents = None]

\* A slip: the command travels with the units and the source is reset to Grow.
move_with_command(terrs, source, target) ==
  [terrs EXCEPT ![target].contents = terrs[source].contents,
                ![target].command = terrs[source].command,
                ![source].contents = None,
                ![source].command = Grow]

\* Lines 278-280: the move from source into target.
move(terrs, source, target) ==
  [terrs EXCEPT ![target].contents = terrs[source].contents,
                ![source].contents = None]

RECURSIVE apply_moves(_, _, _)
\* Phase D, the moves (lines 276-288), from target index t on: st holds the
\* territories and the events.
apply_moves(best_incoming, t, st) ==
  IF t >= len(st.territories) THEN st
  ELSE IF ~is_some(best_incoming[t].source_territory)
  THEN apply_moves(best_incoming, t + 1, st)
  ELSE LET source == best_incoming[t].source_territory[1]
       IN  apply_moves(best_incoming, t + 1,
             [territories |-> move(st.territories, source, t),
              events |-> Append(st.events,
                           Movement(st.territories[source].render_info,
                                    st.territories[t].render_info))])

\* What step_time leaves: `fought` is the state after Phase C, `chosen` holds
\* best_incoming and the RNG counter, `moved` the territories and the events.
stepped(fought, chosen, moved) ==
  [rng |-> chosen.rng, territories |-> moved.territories,
   events |-> moved.events, died |-> fought.died]

\* Lines 276-288, on the state after Phase C and the winners chosen.
moves_applied(fought, chosen) ==
  stepped(fought, chosen,
    apply_moves(chosen.best_incoming, 0,
      [territories |-> fought.territories, events |-> fought.events]))

\* Phase D (lines 237-288), on the state after Phase C.
contested_movement(fought) ==
  moves_applied(fought,
    select_moves(fought.territories, 0,
      [rng |-> fought.rng,
       best_incoming |-> [i \in DOMAIN fought.territories |-> NoIncoming]]))

\* step_time as a function of the state: the territories, the RNG counter and
\* the events after it, with the territories Phase C cleared.
step_time(terrs, players, state) ==
  contested_movement(
    combat(tallies(terrs, players), 0,
           [rng |-> state, territories |-> terrs, events |-> NoEvents,
            died |-> {}]))

StepTime ==
  \E r \in {step_time(territories, player_states, rng)} :
      /\ r.rng <= MaxRngState
      /\ rng' = r.rng
      /\ territories' = r.territories
      /\ UNCHANGED <<player_states, player_indices_by_token>>
      /\ last' = [op |-> "step_time", result |-> "Ok",
                  events |-> r.events, died |-> r.died]

-----------------------------------------------------------------------------
(* The specification: a well-formed initial world, then any interleaving   *)
(* of process_action and step_time calls.                                  *)

Init ==
  /\ rng \in {new_from_seed(seed) : seed \in 0..MaxSeed}
  /\ \E contents \in InitialWorlds :
       territories =
         [i \in TerritoryIndices |->
           [sort |-> InitialMap[i].sort, contents |-> contents[i],
            command |-> Grow, adjacent |-> InitialMap[i].adjacent,
            render_info |-> InitialMap[i].render_info]]
  /\ player_states = InitialPlayers
  /\ player_indices_by_token = InitialTokens
  /\ last = [op |-> "new", result |-> "Ok", events |-> NoEvents, died |-> {}]

Next ==
  \/ \E player_token \in Tokens, action \in SubmittedActions :
       ProcessAction(player_token, action)
  \/ StepTime

Spec == Init /\ [][Next]_vars

-----------------------------------------------------------------------------
(* The errors of process_action, by the names the design gives them.       *)

PlayerNotFound == "Player not found"
PlayerAlreadyDead == "Player already dead"
TerritoryNotFound == "Territory not found"
TerritoryEmpty == "Territory is empty"
NotOwner == "Player does not own territory"
TargetNotFound == "Target territory not found"
TargetNotAdjacent == "Target territory not adjacent"

\* The step just taken was a process_action call that returned an error.
Rejected == last.op = "process_action" /\ last.result # "Ok"

-----------------------------------------------------------------------------
\* C1: atomicity of rejection.  Whenever process_action returns an error, the
\* RNG state, every territory (contents and command), every player state and
\* the token map are exactly what they were before the call.
C1_RejectionIsAtomic == [][Rejected' => world' = world]_vars

\* A SetCommand was rejected by the last check of the validation, with a
\* territory of the acting player named in it.
C1_Witness == last.op = "process_action" /\ last.result = TargetNotAdjacent

-----------------------------------------------------------------------------
(* What the design says of SetCommand, stated on the state before the call. *)

Known(tok) == tok \in DOMAIN player_indices_by_token
PlayerOf(tok) == player_indices_by_token[tok]
Alive(p) == player_states[p].is_alive
TerritoryInRange(t) == t >= 0 /\ t < NumTerritories
Occupied(t) == territories[t].contents # None
OwnerOf(t) == territories[t].contents[1]
UnitsOf(t) == territories[t].contents[2]
Adjacent(t, target) ==
  \E k \in DOMAIN territories[t].adjacent : territories[t].adjacent[k] = target

\* The error of the first check that fails, in the order of the design, or "Ok".
ExpectedSetCommand(tok, t, c) ==
  IF ~Known(tok) THEN PlayerNotFound
  ELSE IF ~Alive(PlayerOf(tok)) THEN PlayerAlreadyDead
  ELSE IF ~TerritoryInRange(t) THEN TerritoryNotFound
  ELSE IF ~Occupied(t) THEN TerritoryEmpty
  ELSE IF OwnerOf(t) # PlayerOf(tok) THEN NotOwner
  ELSE IF c.kind = "Attack" /\ ~TerritoryInRange(c.target) THEN TargetNotFound
  ELSE IF c.kind = "Attack" /\ ~Adjacent(t, c.target) THEN TargetNotAdjacent
  ELSE "Ok"

\* What process_action returns, and leaves, when called in the current state.
Returned(tok, action) ==
  process_action(territories, player_states, player_indices_by_token, tok, action)

\* C2: in every reachable state, a SetCommand{territory, command} returns Ok
\* exactly when the token is known, the player alive, the territory in range,
\* occupied and owned by the player and, for Attack, the target in range and
\* adjacent to the territory; otherwise it returns the error of the first of
\* these checks that fails.
C2_SetCommandResult ==
  \A tok \in Tokens, t \in SubmittedIndices, c \in SubmittedCommands :
    Returned(tok, SetCommand(t, c)).result = ExpectedSetCommand(tok, t, c)

\* An Attack on a target out of range was rejected as such, the territory
\* being one the acting player owns.
C2_Witness == last.op = "process_action" /\ last.result = TargetNotFound

-----------------------------------------------------------------------------
\* C3: once a player is dead, the alive flag stays false over every later
\* operation, and in every state reached every process_action with that
\* player's token, Resign included, returns PlayerAlreadyDead.
C3_DeadStaysDead ==
  /\ [][\A p \in PlayerIndices : ~Alive(p) => ~player_states'[p].is_alive]_vars
  /\ [](\A tok \in DOMAIN player_indices_by_token, action \in SubmittedActions :
          ~Alive(PlayerOf(tok)) => Returned(tok, action).result = PlayerAlreadyDead)

\* A dead player's call was rejected after a step_time had run since the
\* world was built.
C3_Witness ==
  /\ last.op = "process_action" /\ last.result = PlayerAlreadyDead
  /\ rng > MaxSeed

-----------------------------------------------------------------------------
\* C5 as the design states it: every occupied territory's owner index is in
\* bounds of the player list and refers to a player whose alive flag is true.
C5_OwnersAliveInBounds ==
  \A t \in DOMAIN territories :
    Occupied(t) => OwnerOf(t) \in DOMAIN player_states /\ Alive(OwnerOf(t))

\* C5, amended: every occupied territory's owner index is in bounds of the
\* player list; the owner may be dead, since Resign leaves the resigning
\* player's territories occupied.
C5_OwnersInBounds ==
  \A t \in DOMAIN territories :
    Occupied(t) => OwnerOf(t) \in DOMAIN player_states

\* The positions, in the events of the step taken, of the events of a kind.
EventsOf(kind) == {k \in DOMAIN last.events : last.events[k].kind = kind}

\* A step_time moved the units of a player who had resigned into a territory.
C5_Witness ==
  /\ last.op = "step_time"
  /\ \E k \in EventsOf("Movement"), t \in DOMAIN territories :
       /\ last.events[k].render_info_to = territories[t].render_info
       /\ Occupied(t) /\ ~Alive(OwnerOf(t))

-----------------------------------------------------------------------------
\* C6: in every reachable state, every territory whose command is
\* Attack{target} has target in range of the territory list and in that
\* territory's own adjacency list, whoever holds the territory by then.
C6_AttackTargetsAdjacent ==
  \A t \in DOMAIN territories :
    territories[t].command.kind = "Attack" =>
      /\ TerritoryInRange(territories[t].command.target)
      /\ Adjacent(t, territories[t].command.target)

\* After a step_time, a territory that its units left still holds the Attack
\* command they moved by.
C6_Witness ==
  /\ last.op = "step_time"
  /\ \E t \in DOMAIN territories :
       /\ territories[t].command.kind = "Attack"
       /\ ~Occupied(t)
       /\ Occupied(territories[t].command.target)

-----------------------------------------------------------------------------
\* C7: an accepted SetCommand{territory, command} changes the command of the
\* named territory to the submitted one and nothing else: no contents, no
\* other command, no player state, and process_action never touches the RNG
\* or the token map.  The command a step reads is thus the last one accepted.
C7_SetCommandFrame ==
  /\ [](\A tok \in Tokens, t \in SubmittedIndices, c \in SubmittedCommands :
          LET r == Returned(tok, SetCommand(t, c))
          IN  r.result = "Ok" =>
                /\ r.territories = [territories EXCEPT ![t].command = c]
                /\ r.player_states = player_states)
  /\ [][last'.op = "process_action" =>
          UNCHANGED <<rng, player_indices_by_token>>]_vars

\* The last call was accepted, a territory of a living owner holds Fortify
\* and another territory holds an Attack: commands only a SetCommand sets.
C7_Witness ==
  /\ last.op = "process_action" /\ last.result = "Ok"
  /\ \E t \in DOMAIN territories :
       /\ territories[t].command = Fortify
       /\ Occupied(t) /\ Alive(OwnerOf(t))
       /\ \E u \in DOMAIN territories : territories[u].command.kind = "Attack"

-----------------------------------------------------------------------------
\* C8: Resign by a living player returns Ok and sets that player's alive flag
\* to false; every territory (contents and command), every other field of the
\* player, every other player, the RNG and the token map are unchanged.
C8_ResignFrame ==
  /\ [](\A tok \in DOMAIN player_indices_by_token :
          LET r == Returned(tok, Resign)
          IN  Alive(PlayerOf(tok)) =>
                /\ r.result = "Ok"
                /\ r.player_states =
                     [player_states EXCEPT ![PlayerOf(tok)].is_alive = FALSE]
                /\ r.territories = territories)
  /\ [][last'.op = "process_action" =>
          UNCHANGED <<rng, player_indices_by_token>>]_vars

\* Both players have resigned and each still holds a territory.
C8_Witness ==
  /\ last.op = "process_action" /\ last.result = "Ok"
  /\ \A p \in PlayerIndices :
       /\ ~Alive(p)
       /\ \E t \in DOMAIN territories : Occupied(t) /\ OwnerOf(t) = p

-----------------------------------------------------------------------------
\* The scores Phase C of the next step_time reads.
HalfDefense(t) == tallies(territories, player_states).half_defense_points[t]
IncomingHalfAttack(t) ==
  tallies(territories, player_states).incoming_half_attack_points[t]

\* The step taken is a step_time.
Stepped == last.op = "step_time"

\* The events of the step taken that are Deaths at territory t.
DeathsAt(t) ==
  {k \in EventsOf("Death") : last.events[k].render_info = territories[t].render_info}

\* C9: in a step_time, a territory whose incoming half-attack score is zero
\* is not cleared by Phase C and gets no Death event, whatever its defense
\* score and whatever the RNG draws.
C9_NoAttackNoDeath ==
  [][Stepped' =>
       \A t \in DOMAIN territories :
         IncomingHalfAttack(t) = 0 => t \notin last'.died /\ DeathsAt(t)' = {}]_vars

\* After a step_time the swamp still holds player 0's attacking units, whose
\* defense score was negative, and no territory holds an Attack on it.
C9_Witness ==
  /\ Stepped
  /\ territories[1].sort = "Swamp"
  /\ Occupied(1) /\ OwnerOf(1) = 0 /\ UnitsOf(1) = 1
  /\ player_states[0].defense_level = 0
  /\ territories[1].command.kind = "Attack"
  /\ \A t \in DOMAIN territories : territories[t].command # Attack(1)

-----------------------------------------------------------------------------
\* Territory s is the one occupied territory with an Attack command, on t.
OnlyAttacker(s, t) ==
  /\ Occupied(s) /\ territories[s].command = Attack(t)
  /\ \A u \in DOMAIN territories :
       (u # s /\ Occupied(u)) => territories[u].command.kind # "Attack"

\* C10: in a step_time where exactly one occupied territory S has an Attack
\* command, on T, and T is empty after combat, T ends with the (owner, units)
\* S held, S ends empty, and the step's events hold exactly one Movement,
\* from S's render coordinates to T's.
C10_SingleAttackerMoves ==
  [][Stepped' =>
       \A s, t \in DOMAIN territories :
         (OnlyAttacker(s, t) /\ (~Occupied(t) \/ t \in last'.died)) =>
           /\ territories'[t].contents = territories[s].contents
           /\ territories'[s].contents = None
           /\ Cardinality(EventsOf("Movement")') = 1
           /\ \E k \in EventsOf("Movement")' :
                last'.events[k] = Movement(territories[s].render_info,
                                           territories[t].render_info)]_vars

\* The design's scenario: after a step_time territory 1 holds player 0's
\* units, territory 0 is empty with its Attack{1}, and the one event of the
\* step is the Movement from territory 0 to territory 1.
C10_Witness ==
  /\ Stepped
  /\ territories[0].command = Attack(1) /\ ~Occupied(0)
  /\ Occupied(1) /\ OwnerOf(1) = 0
  /\ \A u \in DOMAIN territories : u # 0 => territories[u].command.kind # "Attack"
  /\ last.events = <<Movement(territories[0].render_info, territories[1].render_info)>>

-----------------------------------------------------------------------------
\* The rolls Phase C of the next step_time draws for territory t, when no
\* territory before t draws: the defense roll, then the attack roll.
FirstDefenseRoll(t) == roll(rng, HalfDefense(t))
FirstAttackRoll(t) == roll(FirstDefenseRoll(t).state, IncomingHalfAttack(t))

\* The design's second scenario, before a step_time: territory 0 is held by
\* player 0 (defense level 0) with no units and command Grow, territory 1 by
\* another player with at least one unit and command Attack{0}, and no other
\* occupied territory attacks.
Assaulted ==
  /\ territories[0].contents = <<0, 0>> /\ territories[0].command = Grow
  /\ player_states[0].defense_level = 0
  /\ OnlyAttacker(1, 0) /\ OwnerOf(1) # 0 /\ UnitsOf(1) > 0

\* C11 as the design states it: after the step_time of that scenario,
\* territory 0 is empty and exactly one Death event, at territory 0's
\* coordinates, was emitted, whatever the RNG draws.
C11_AssaultEmptiesTarget ==
  [][(Stepped' /\ Assaulted) =>
       /\ territories'[0].contents = None
       /\ Cardinality(DeathsAt(0)') = 1]_vars

\* C11, amended: in that scenario, when the attack roll is positive Phase C
\* clears territory 0 with exactly one Death event at its coordinates and
\* Phase D then moves the attacker's units into it, so that the step ends
\* with territory 0 held by the attacker and territory 1 empty; when the
\* attack roll is 0 territory 0 keeps its contents and no Death is emitted.
C11_AssaultOutcome ==
  [][(Stepped' /\ Assaulted) =>
       IF FirstAttackRoll(0).sum > 0
       THEN /\ 0 \in last'.died
            /\ Cardinality(DeathsAt(0)') = 1
            /\ territories'[0].contents = territories[1].contents
            /\ territories'[1].contents = None
       ELSE /\ territories'[0].contents = territories[0].contents
            /\ 0 \notin last'.died
            /\ DeathsAt(0)' = {}]_vars

\* After a step_time territory 0, still under Grow, is held by player 1's
\* units, territory 1 is empty with its Attack{0}, and the events of the
\* step are the Death at territory 0 and the Movement into it.
C11_Witness ==
  /\ Stepped
  /\ territories[0].command = Grow /\ Occupied(0) /\ OwnerOf(0) = 1
  /\ territories[1].command = Attack(0) /\ ~Occupied(1)
  /\ last.events = <<Death(territories[0].render_info),
                     Movement(territories[1].render_info, territories[0].render_info)>>

-----------------------------------------------------------------------------
\* Phase C of the next step_time, run on the current state.
Fought ==
  combat(tallies(territories, player_states), 0,
         [rng |-> rng, territories |-> territories, events |-> NoEvents,
          died |-> {}])

\* The number of draws the design gives territory t: none for a defense
\* score that is not positive.
DefenseDraws(t) == IF HalfDefense(t) > 0 THEN HalfDefense(t) ELSE 0
AttackDraws(t) == IncomingHalfAttack(t)

RECURSIVE DrawsBefore(_)
\* The draws of the territories of index below t.
DrawsBefore(t) ==
  IF t = 0 THEN 0
  ELSE DrawsBefore(t - 1) + DefenseDraws(t - 1) + AttackDraws(t - 1)

RECURSIVE MaskedSum(_, _)
\* The sum of the low 2 bits of the n values generated after counter `from`.
MaskedSum(from, n) ==
  IF n <= 0 THEN 0
  ELSE Low2(generate(from + n - 1).value) + MaskedSum(from, n - 1)

\* The rolls of territory t by the order of the design: its defense draws
\* right after the draws of the territories before it, then its attack draws.
DefenseRollOf(t) == MaskedSum(rng + DrawsBefore(t), DefenseDraws(t))
AttackRollOf(t) ==
  MaskedSum(rng + DrawsBefore(t) + DefenseDraws(t), AttackDraws(t))

\* C12: in every reachable state, Phase C run from it takes the territories
\* in index order and draws, for territory i, half_defense_points[i] values
\* (none when the score is <= 0) and then incoming_half_attack_points[i]
\* values, each masked to 2 bits, and nothing else: the counter ends
\* advanced by the sum of these numbers, and the territories cleared are
\* those whose attack roll, read at these positions, exceeds the defense roll.
C12_DrawOrder ==
  /\ Fought.rng = rng + DrawsBefore(NumTerritories)
  /\ Fought.died = {t \in DOMAIN territories : AttackRollOf(t) > DefenseRollOf(t)}

\* A step_time has run, and in the state it left a territory after the first
\* has both defense and attack draws, follows a territory that draws, and is
\* cleared by the next Phase C.
C12_Witness ==
  /\ Stepped
  /\ \E t \in DOMAIN territories :
       /\ DrawsBefore(t) > 0 /\ DefenseDraws(t) > 0 /\ AttackDraws(t) > 0
       /\ t \in Fought.died

-----------------------------------------------------------------------------
\* The territory whose render coordinates are r.
TerritoryAt(r) == CHOOSE t \in DOMAIN territories : territories[t].render_info = r

\* C13: every event of a step_time carries the unit count before the change:
\* a Death the units the territory held before it was cleared, a Movement
\* the units moved from its source.
C13_EventAmounts ==
  [][Stepped' =>
       \A k \in DOMAIN last'.events :
         LET e == last'.events[k] IN
           IF e.kind = "Death"
           THEN Occupied(TerritoryAt(e.render_info)) =>
                  e.amount = UnitsOf(TerritoryAt(e.render_info))
           ELSE e.amount = UnitsOf(TerritoryAt(e.render_info_from))]_vars

-----------------------------------------------------------------------------
\* C14: in every reachable state step_time runs to its end: every owner
\* index it looks up in the player list (line 179) and every Attack target it
\* looks up in the territory list (lines 202, 253 and 257) is in bounds, and
\* the step returns with the same territories, each empty or held by a
\* player of the list.
C14_StepTimeInBounds ==
  /\ \A t \in DOMAIN territories :
       Occupied(t) =>
         /\ OwnerOf(t) \in DOMAIN player_states
         /\ territories[t].command.kind = "Attack" =>
              territories[t].command.target \in DOMAIN territories
  /\ LET r == step_time(territories, player_states, rng)
     IN  /\ DOMAIN r.territories = DOMAIN territories
         /\ \A t \in DOMAIN r.territories :
              is_some(r.territories[t].contents) =>
                r.territories[t].contents[1] \in DOMAIN player_states
         /\ r.rng >= rng

\* A step_time that cleared a territory and moved units has run, and an
\* occupied territory holds an Attack for the next step to look up.
C14_Witness ==
  /\ Stepped /\ last.died # {} /\ EventsOf("Movement") # {}
  /\ \E t \in DOMAIN territories :
       Occupied(t) /\ territories[t].command.kind = "Attack"

-----------------------------------------------------------------------------
\* The occupied territories whose command, before the step, is Attack{t}.
AttackersOf(t) ==
  {s \in DOMAIN territories : Occupied(s) /\ territories[s].command = Attack(t)}

\* The positions, in the events of the step taken, of the Movements into t.
MovesInto(t) ==
  {k \in EventsOf("Movement") :
     last.events[k].render_info_to = territories[t].render_info}

\* C15 as the design states it: the candidates of Phase D are the territories
\* that were occupied and attacking before Phase C, and only the emptiness of
\* the target is read after combat: a target empty after combat that had an
\* attacker before it receives one of these attackers.
C15_PreCombatCandidates ==
  [][Stepped' =>
       \A t \in DOMAIN territories :
         ((~Occupied(t) \/ t \in last'.died) /\ AttackersOf(t) # {}) =>
           \E k \in MovesInto(t)', s \in AttackersOf(t) :
             last'.events[k].render_info_from = territories[s].render_info]_vars

\* C15, amended: the candidates of Phase D are read after Phase C, as the
\* emptiness of the target is: they are the attackers that combat did not
\* clear.  A target empty after combat with such a candidate receives exactly
\* one Movement, from one of them and with the contents it held; any other
\* territory receives none, and a territory cleared in Phase C never moves.
C15_PostCombatCandidates ==
  [][Stepped' =>
       \A t \in DOMAIN territories :
         LET candidates == AttackersOf(t) \ last'.died
         IN  IF (~Occupied(t) \/ t \in last'.died) /\ candidates # {}
             THEN /\ Cardinality(MovesInto(t)') = 1
                  /\ \E k \in MovesInto(t)', s \in candidates :
                       /\ last'.events[k].render_info_from = territories[s].render_info
                       /\ territories'[t].contents = territories[s].contents
                       /\ territories'[s].contents = None
             ELSE MovesInto(t)' = {}]_vars

\* A step_time has drawn from the RNG, and the next one, which the bound lets
\* run, clears the only attacker of a target that combat leaves empty:
\* nothing moves in.
C15_Witness ==
  /\ rng > MaxSeed
  /\ LET r == step_time(territories, player_states, rng)
     IN  /\ r.rng <= MaxRngState
         /\ \E s, t \in DOMAIN territories :
              /\ AttackersOf(t) = {s} /\ s \in r.died
              /\ ~Occupied(t) \/ t \in r.died
              /\ r.territories[t].contents = None

-----------------------------------------------------------------------------
(* The winner of a target as the design gives it, on the state f that      *)
(* Phase C leaves.                                                         *)

\* The candidates for target t: the territories occupied after combat whose
\* command is Attack{t}, t being empty after combat.
CandidatesOf(f, t) ==
  IF is_some(f.territories[t].contents) THEN {}
  ELSE {s \in DOMAIN territories :
          is_some(f.territories[s].contents) /\ territories[s].command = Attack(t)}

\* The greatest unit count among the candidates for t scanned before s, and
\* -1 when there is none.
BestBefore(f, t, s) ==
  LET earlier == {UnitsOf(u) : u \in {c \in CandidatesOf(f, t) : c < s}}
  IN  IF earlier = {} THEN -1
      ELSE CHOOSE m \in earlier : \A n \in earlier : n <= m

\* Candidate s ties the best of the candidates for its target scanned before it.
Ties(f, s) ==
  /\ is_some(f.territories[s].contents)
  /\ territories[s].command.kind = "Attack"
  /\ s \in CandidatesOf(f, territories[s].command.target)
  /\ UnitsOf(s) = BestBefore(f, territories[s].command.target, s)

\* The value drawn for the tie of candidate s: the draws of Phase D are those
\* of the ties, in index order of the candidates.
TieDraw(f, s) ==
  generate(f.rng + Cardinality({u \in DOMAIN territories : u < s /\ Ties(f, u)})).value

\* competitor_count at the tie of candidate s for target t.
Competitors(f, t, s) ==
  Cardinality({u \in CandidatesOf(f, t) : u <= s /\ UnitsOf(u) = UnitsOf(s)})

\* Candidate s becomes the best for target t when it is scanned.
Replaces(f, t, s) ==
  \/ UnitsOf(s) > BestBefore(f, t, s)
  \/ /\ UnitsOf(s) = BestBefore(f, t, s)
     /\ ModU64(TieDraw(f, s), Competitors(f, t, s)) = 0

\* The last candidate for t, in index order, that became the best.
WinnerOf(f, t) ==
  CHOOSE s \in CandidatesOf(f, t) :
    /\ Replaces(f, t, s)
    /\ \A u \in CandidatesOf(f, t) : (u > s) => ~Replaces(f, t, u)

\* C16: in every reachable state, the step_time run from it gives every
\* target that has a candidate the contents of the last candidate, in index
\* order, that had strictly more units than the best before it or that tied
\* it with the next RNG value modulo competitor_count equal to 0; that
\* winner has the greatest unit count of the candidates, and Phase D draws
\* one value for each tie and no other.
C16_WinnerSelection ==
  \A f \in {Fought}, r \in {step_time(territories, player_states, rng)} :
    /\ r.rng = f.rng + Cardinality({s \in DOMAIN territories : Ties(f, s)})
    /\ \A t \in DOMAIN territories :
         CandidatesOf(f, t) # {} =>
           /\ r.territories[t].contents = territories[WinnerOf(f, t)].contents
           /\ r.territories[WinnerOf(f, t)].contents = None
           /\ \A s \in CandidatesOf(f, t) : UnitsOf(s) <= UnitsOf(WinnerOf(f, t))

\* A step_time has drawn from the RNG, and in the next one, which the bound
\* lets run, two candidates for a target tie and the later one wins the draw.
C16_Witness ==
  /\ rng > MaxSeed
  /\ \E f \in {Fought}, r \in {step_time(territories, player_states, rng)} :
       /\ r.rng <= MaxRngState
       /\ \E t, s \in DOMAIN territories :
            /\ Cardinality(CandidatesOf(f, t)) = 2
            /\ s \in CandidatesOf(f, t) /\ Ties(f, s) /\ WinnerOf(f, t) = s

-----------------------------------------------------------------------------
\* The attackers of t that its owner holds, when t is occupied.
FriendsOf(t) ==
  {s \in AttackersOf(t) : Occupied(t) /\ OwnerOf(s) = OwnerOf(t)}

RECURSIVE SumUnits(_)
\* The units of a set of occupied territories.
SumUnits(S) ==
  IF S = {} THEN 0
  ELSE LET s == CHOOSE x \in S : TRUE IN UnitsOf(s) + SumUnits(S \ {s})

\* C17: in every reachable state the attackers of a territory that share its
\* owner add their units to its half-defense score and nothing to its
\* incoming half-attack score, the other attackers add theirs to the
\* half-attack score only; and a step_time never clears an occupied
\* territory all of whose attackers share its owner.
C17_ReinforcementIsDefense ==
  /\ [](\A tally \in {tallies(territories, player_states)}, t \in DOMAIN territories :
          /\ tally.half_defense_points[t] =
               half_defense(territories[t], player_states) + SumUnits(FriendsOf(t))
          /\ tally.incoming_half_attack_points[t] =
               SumUnits(AttackersOf(t) \ FriendsOf(t)))
  /\ [][Stepped' =>
          \A t \in DOMAIN territories :
            (Occupied(t) /\ AttackersOf(t) = FriendsOf(t)) => t \notin last'.died]_vars

\* A step_time that changed no contents has run with a territory under an
\* Attack from a territory of the same owner, its only attacker.
C17_Witness ==
  /\ Stepped /\ last.events = NoEvents
  /\ \E s, t \in DOMAIN territories :
       AttackersOf(t) = {s} /\ FriendsOf(t) = {s}

-----------------------------------------------------------------------------
\* The territories the Movements of the step taken leave and enter.
MoveSources ==
  {TerritoryAt(last.events[k].render_info_from) : k \in EventsOf("Movement")}
MoveTargets ==
  {TerritoryAt(last.events[k].render_info_to) : k \in EventsOf("Movement")}

OccupiedTerritories == {t \in DOMAIN territories : Occupied(t)}
TotalUnits == SumUnits(OccupiedTerritories)

-----------------------------------------------------------------------------
\* C19: every Death event of a step_time is for a territory that was occupied
\* when the step began and that the step cleared; no Death event is emitted
\* for a territory that was already empty.
C19_DeathsOfOccupied ==
  [][Stepped' =>
       \A k \in EventsOf("Death")' :
         LET t == TerritoryAt(last'.events[k].render_info)
         IN  Occupied(t) /\ t \in last'.died]_vars

-----------------------------------------------------------------------------
\* C20: a step_time leaves every territory's command, adjacency list, sort
\* and render coordinates, every player state and the token map as they
\* were, also for a territory it empties or hands to another owner; and the
\* only operation that changes a command is an accepted process_action.
C20_CommandsPersist ==
  [][/\ Stepped' =>
          /\ \A t \in DOMAIN territories :
               /\ territories'[t].command = territories[t].command
               /\ territories'[t].adjacent = territories[t].adjacent
               /\ territories'[t].sort = territories[t].sort
               /\ territories'[t].render_info = territories[t].render_info
          /\ DOMAIN territories' = DOMAIN territories
          /\ player_states' = player_states
          /\ player_indices_by_token' = player_indices_by_token
     /\ (\E t \in DOMAIN territories :
            territories'[t].command # territories[t].command)
          => last'.op = "process_action" /\ last'.result = "Ok"]_vars

\* A step_time emptied a territory, by a death or by moving its units out,
\* and the territory still holds its Attack command.
C20_Witness ==
  /\ Stepped
  /\ \E t \in last.died \cup MoveSources :
       ~Occupied(t) /\ territories[t].command.kind = "Attack"

====
